---- MODULE Spec2Model ----
(***************************************************************************)
(* A model of the document chunking pipeline of vino-students:             *)
(*   - chunking.py: cleanup_plaintext, split_text                          *)
(*   - the token-budget splitter of spec section 4.5                       *)
(*   - document_processor.py: load_documents_from_directory and the        *)
(*     functions it calls                                                  *)
(* Text is a sequence of one-character strings.                            *)
(***************************************************************************)
EXTENDS Integers, Sequences, FiniteSets, TLC

VARIABLES
    \* split_text (chunking.py:229-283)
    toc, text, headings, paragraphs, para_i,
    current_heading, current_content, text_chunks, split_pc,
    \* cleanup_plaintext (chunking.py:204-227), applied once and once more
    clean_in, clean_once, clean_twice, clean_pc,
    \* the token-budget splitter (spec 4.5): ceiling, chunks still to examine,
    \* chunks returned
    max_tokens, work, result_chunks, budget_pc,
    \* load_documents_from_directory (document_processor.py:363-421)
    directory, file_paths, file_i, all_documents, all_metadatas, all_ids, load_pc,
    \* the files the loader printed "Error loading" for (line 417)
    load_failed,
    \* process_directory (upload_supa.py:21-104): the destination directory, the
    \* database tables and the storage bucket, the per-file loop, and which
    \* services fail for which file in the run
    to_dir, filemetadata, largeobject, storage,
    files_data, pd_i, pd_pc, processed_any, pd_run, pd_fate, pd_before, left_behind,
    \* read_doc (chunking.py:182-202): the converted text, its type, the outline
    \* and the body
    doc, doc_type, rd_toc, rd_text, rd_pc,
    \* generate_abstract (document_processor.py:140-163): the document text,
    \* the maximum length and the abstract returned
    ab_text, max_length, abstract, ab_pc,
    \* handle_upload (APIendpoint.py:114-165): the request and what the calls of
    \* the handler do for it, the new-user-uploads directory, the ids of the user
    \* collection, the exception in flight, the response, whether file.close()
    \* ran
    hu_request, new_uploads, user_ids, hu_exception, hu_status, hu_detail,
    hu_closed, hu_pc

splitVars == <<toc, text, headings, paragraphs, para_i,
               current_heading, current_content, text_chunks, split_pc>>

cleanVars == <<clean_in, clean_once, clean_twice, clean_pc>>

budgetVars == <<max_tokens, work, result_chunks, budget_pc>>

loadVars == <<directory, file_paths, file_i, all_documents, all_metadatas,
              all_ids, load_pc, load_failed>>

uploadVars == <<to_dir, filemetadata, largeobject, storage,
                files_data, pd_i, pd_pc, processed_any, pd_run, pd_fate, pd_before,
                left_behind>>

readVars == <<doc, doc_type, rd_toc, rd_text, rd_pc>>

abstractVars == <<ab_text, max_length, abstract, ab_pc>>

endpointVars == <<hu_request, new_uploads, user_ids, hu_exception, hu_status,
                  hu_detail, hu_closed, hu_pc>>

vars == <<splitVars, cleanVars, budgetVars, loadVars, uploadVars, readVars, abstractVars, endpointVars>>

----------------------------------------------------------------------------
(* Bounds of the model *)

MaxParas == 4
MaxTocLines == 2
MaxCleanPieces == 4
MaxWords == 4
LongWordTokens == 3
MaxHeadingTokens == 1
MaxCeiling == 3
MaxFiles == 2
MaxChunks == 2
MaxRuns == 2
MaxDocPieces == 6
OutlineWindow == 5
MaxAbstractPieces == 6
MaxAbstractLength == 5

----------------------------------------------------------------------------
(* String helpers: Python str methods used by the code *)

NL == "\n"
CR == "\r"

RECURSIVE LStripSet(_, _)
LStripSet(s, cs) ==
    IF s = <<>> THEN <<>>
    ELSE IF Head(s) \in cs THEN LStripSet(Tail(s), cs) ELSE s

RECURSIVE RStripSet(_, _)
RStripSet(s, cs) ==
    IF s = <<>> THEN <<>>
    ELSE IF s[Len(s)] \in cs THEN RStripSet(SubSeq(s, 1, Len(s) - 1), cs) ELSE s

\* str.strip(chars)
StripSet(s, cs) == RStripSet(LStripSet(s, cs), cs)

\* str.strip()
Strip(s) == StripSet(s, {" ", NL, CR, "\t"})

\* s[i..] starts with pat
StartsAt(s, i, pat) ==
    /\ i + Len(pat) - 1 <= Len(s)
    /\ \A k \in 1..Len(pat) : s[i + k - 1] = pat[k]

\* index of the first occurrence of pat in s at or after i, 0 when there is none
RECURSIVE FindFrom(_, _, _)
FindFrom(s, i, pat) ==
    IF i + Len(pat) - 1 > Len(s) THEN 0
    ELSE IF StartsAt(s, i, pat) THEN i
    ELSE FindFrom(s, i + 1, pat)

\* str.split(sep) for a non-empty separator
RECURSIVE SplitOn(_, _)
SplitOn(s, sep) ==
    LET k == FindFrom(s, 1, sep) IN
    IF k = 0 THEN <<s>>
    ELSE <<SubSeq(s, 1, k - 1)>> \o SplitOn(SubSeq(s, k + Len(sep), Len(s)), sep)

\* sep.join(parts)
RECURSIVE Join(_, _)
Join(parts, sep) ==
    IF parts = <<>> THEN <<>>
    ELSE IF Len(parts) = 1 THEN parts[1]
    ELSE parts[1] \o sep \o Join(Tail(parts), sep)

\* x in list
InList(x, list) == \E k \in 1..Len(list) : list[k] = x

\* a remove that drops nothing
ListRemoveNone(list, x) == list

\* list.remove(x): drops the first occurrence of x
RECURSIVE ListRemove(_, _)
ListRemove(list, x) ==
    IF list = <<>> THEN <<>>
    ELSE IF Head(list) = x THEN Tail(list)
    ELSE <<Head(list)>> \o ListRemove(Tail(list), x)

\* number of occurrences of x in list
RECURSIVE CountIn(_, _)
CountIn(list, x) ==
    IF list = <<>> THEN 0
    ELSE (IF Head(list) = x THEN 1 ELSE 0) + CountIn(Tail(list), x)

\* all sequences over S of length at most n
SeqsUpTo(S, n) == UNION {[1..k -> S] : k \in 0..n}

----------------------------------------------------------------------------
(* split_text, chunking.py:229-283 *)

SEP == <<" ", "[", "S", "E", "P", "]", " ">>

\* re.split(r'\r?\n', toc)
RECURSIVE SplitLines(_)
SplitLines(s) ==
    LET k == FindFrom(s, 1, <<NL>>) IN
    IF k = 0 THEN <<s>>
    ELSE LET before == SubSeq(s, 1, k - 1)
             line == IF before # <<>> /\ before[Len(before)] = CR
                     THEN SubSeq(before, 1, Len(before) - 1) ELSE before
         IN <<line>> \o SplitLines(SubSeq(s, k + 1, Len(s)))

\* line.strip('- \n\r').strip()
CleanTocLine(line) == Strip(StripSet(line, {"-", " ", NL, CR}))

RECURSIVE KeepNonEmpty(_)
KeepNonEmpty(lines) ==
    IF lines = <<>> THEN <<>>
    ELSE (IF CleanTocLine(Head(lines)) # <<>> THEN <<CleanTocLine(Head(lines))>> ELSE <<>>)
         \o KeepNonEmpty(Tail(lines))

\* lines 235-245: the heading list parsed from the outline
ParseHeadings(t) ==
    IF Strip(t) = <<>> THEN <<>> ELSE KeepNonEmpty(SplitLines(t))

\* line 247
SplitParagraphs(t) == SplitOn(t, <<NL, NL>>)

\* a chunk string with a colon where the separator belongs
HeadedChunkColon(h, content) == Strip(h \o <<":", " ">> \o Join(content, <<" ">>))

\* lines 263 and 277: f"{current_heading} [SEP] {combined_content}".strip()
HeadedChunk(h, content) == Strip(h \o SEP \o Join(content, <<" ">>))

\* a headless chunk that keeps the paragraph breaks
HeadlessChunkBreaks(content) == Strip(Join(content, <<NL, NL>>))

\* lines 280-281
HeadlessChunk(content) == Strip(Join(content, <<" ">>))

\* a split_text that forgets line 267
ConsumeHeadingKept(hs, h) == hs

\* line 267: headings.remove(para.strip())
ConsumeHeading(hs, h) == ListRemove(hs, h)

\* a split_text that matches against the whole outline, consumed or not
IsHeadingOfOutline(p, hs) == InList(Strip(p), ParseHeadings(toc))

\* line 259: len(headings) > 0 and para.strip() in headings
IsHeading(p, hs) == Len(hs) > 0 /\ InList(Strip(p), hs)

TocLinePool == { <<"-", " ", "A">>, <<" ", " ", "-", " ", "B", " ">>, <<"-">> }
ParaPool == { <<"A">>, <<"B", " ">>, <<"x">>, <<" ">> }

SplitInputs ==
    { <<Join(tl, <<NL>>), Join(ps, <<NL, NL>>)>> :
        tl \in SeqsUpTo(TocLinePool, MaxTocLines), ps \in SeqsUpTo(ParaPool, MaxParas) }

SplitIdle ==
    /\ toc = <<>> /\ text = <<>> /\ headings = <<>> /\ paragraphs = <<>>
    /\ para_i = 0 /\ current_heading = <<>> /\ current_content = <<>>
    /\ text_chunks = <<>> /\ split_pc = "idle"

SplitInit ==
    /\ \E inp \in SplitInputs : toc = inp[1] /\ text = inp[2]
    /\ headings = <<>>
    /\ paragraphs = <<>>
    /\ para_i = 0
    /\ current_heading = <<>>
    /\ current_content = <<>>
    /\ text_chunks = <<>>
    /\ split_pc = "start"

\* lines 234-251
SplitStart ==
    /\ split_pc = "start"
    /\ headings' = ParseHeadings(toc)
    /\ paragraphs' = SplitParagraphs(text)
    /\ para_i' = 1
    /\ current_heading' = <<>>
    /\ current_content' = <<>>
    /\ text_chunks' = <<>>
    /\ split_pc' = "loop"
    /\ UNCHANGED <<toc, text>>

\* lines 255-256: a blank paragraph is skipped
SplitSkipBlank ==
    /\ split_pc = "loop"
    /\ para_i <= Len(paragraphs)
    /\ Strip(paragraphs[para_i]) = <<>>
    /\ para_i' = para_i + 1
    /\ UNCHANGED <<toc, text, headings, paragraphs, current_heading,
                   current_content, text_chunks, split_pc>>

\* lines 259-269: the paragraph is one of the remaining headings
SplitBindHeading ==
    /\ split_pc = "loop"
    /\ para_i <= Len(paragraphs)
    /\ Strip(paragraphs[para_i]) # <<>>
    /\ IsHeading(paragraphs[para_i], headings)
    /\ text_chunks' =
          IF current_heading # <<>> /\ current_content # <<>>
          THEN Append(text_chunks, HeadedChunk(current_heading, current_content))
          ELSE text_chunks
    /\ current_heading' = Strip(paragraphs[para_i])
    /\ headings' = ConsumeHeading(headings, Strip(paragraphs[para_i]))
    /\ current_content' = <<>>
    /\ para_i' = para_i + 1
    /\ UNCHANGED <<toc, text, paragraphs, split_pc>>

\* line 272: the paragraph is content
SplitAccumulate ==
    /\ split_pc = "loop"
    /\ para_i <= Len(paragraphs)
    /\ Strip(paragraphs[para_i]) # <<>>
    /\ ~IsHeading(paragraphs[para_i], headings)
    /\ current_content' = Append(current_content, Strip(paragraphs[para_i]))
    /\ para_i' = para_i + 1
    /\ UNCHANGED <<toc, text, headings, paragraphs, current_heading,
                   text_chunks, split_pc>>

\* lines 275-283: the last flush and the return
SplitFinish ==
    /\ split_pc = "loop"
    /\ para_i > Len(paragraphs)
    /\ text_chunks' =
          IF current_heading # <<>> /\ current_content # <<>>
          THEN Append(text_chunks, HeadedChunk(current_heading, current_content))
          ELSE IF current_content # <<>> /\ current_heading = <<>>
          THEN Append(text_chunks, HeadlessChunk(current_content))
          ELSE text_chunks
    /\ split_pc' = "done"
    /\ UNCHANGED <<toc, text, headings, paragraphs, para_i,
                   current_heading, current_content>>

SplitNext ==
    \/ SplitStart /\ UNCHANGED <<cleanVars, budgetVars, loadVars, uploadVars, readVars, abstractVars, endpointVars>>
    \/ SplitSkipBlank /\ UNCHANGED <<cleanVars, budgetVars, loadVars, uploadVars, readVars, abstractVars, endpointVars>>
    \/ SplitBindHeading /\ UNCHANGED <<cleanVars, budgetVars, loadVars, uploadVars, readVars, abstractVars, endpointVars>>
    \/ SplitAccumulate /\ UNCHANGED <<cleanVars, budgetVars, loadVars, uploadVars, readVars, abstractVars, endpointVars>>
    \/ SplitFinish /\ UNCHANGED <<cleanVars, budgetVars, loadVars, uploadVars, readVars, abstractVars, endpointVars>>

----------------------------------------------------------------------------
(* cleanup_plaintext, chunking.py:204-227 *)

\* str.replace(pat, rep): the occurrences of pat, left to right, not overlapping
RECURSIVE ReplaceAll(_, _, _)
ReplaceAll(s, pat, rep) ==
    LET k == FindFrom(s, 1, pat) IN
    IF k = 0 THEN s
    ELSE SubSeq(s, 1, k - 1) \o rep
         \o ReplaceAll(SubSeq(s, k + Len(pat), Len(s)), pat, rep)

\* the characters of s at the positions from i on that keep marks TRUE
RECURSIVE FilterFrom(_, _, _)
FilterFrom(s, i, keep) ==
    IF i > Len(s) THEN <<>>
    ELSE (IF keep[i] THEN <<s[i]>> ELSE <<>>) \o FilterFrom(s, i + 1, keep)

IMAGE == <<"[", "i", "m", "a", "g", "e", "]">>

\* lines 209-210
RemoveImages(s) == ReplaceAll(ReplaceAll(s, IMAGE, <<>>), <<"[", "]">>, <<>>)

\* lines 213-214
NormalizeLineEndings(s) == ReplaceAll(ReplaceAll(s, <<CR, NL>>, <<NL>>), <<CR>>, <<NL>>)

\* line 220: re.sub('(?<!\n)\n(?!(\n|- ))', ' ', text)
UnwrapLines(s) ==
    [i \in 1..Len(s) |->
        IF /\ s[i] = NL
           /\ (i = 1 \/ s[i - 1] # NL)
           /\ ~(i + 1 <= Len(s) /\ s[i + 1] = NL)
           /\ ~(i + 2 <= Len(s) /\ s[i + 1] = "-" /\ s[i + 2] = " ")
        THEN " " ELSE s[i]]

\* a cleanup that leaves the runs of LF as they are
CollapseNewlinesNever(s) == s

\* line 223: re.sub('\n{2,}', '\n\n', text): the third and later LF of a run go
CollapseNewlines(s) ==
    LET keep == [i \in 1..Len(s) |->
                    ~(s[i] = NL /\ i >= 3 /\ s[i - 1] = NL /\ s[i - 2] = NL)]
    IN FilterFrom(s, 1, keep)

\* line 226: re.sub('(?<!\n) +', ' ', text): a run of spaces becomes one space; a
\* run cannot start right after an LF, so the first space after an LF stays apart
CollapseSpaces(s) ==
    LET keep == [i \in 1..Len(s) |->
                    ~(/\ s[i] = " "
                      /\ i >= 2 /\ s[i - 1] = " "
                      /\ ~(i >= 3 /\ s[i - 2] = NL))]
    IN FilterFrom(s, 1, keep)

cleanup_plaintext(t) ==
    CollapseSpaces(CollapseNewlines(UnwrapLines(NormalizeLineEndings(RemoveImages(t)))))

CleanPiecePool == { <<"[">>, <<"]">>, IMAGE, <<NL>>, <<CR>>, <<" ">>, <<"-">>, <<"a">> }

CleanInputs == { Join(ps, <<>>) : ps \in SeqsUpTo(CleanPiecePool, MaxCleanPieces) }

CleanIdle ==
    clean_in = <<>> /\ clean_once = <<>> /\ clean_twice = <<>> /\ clean_pc = "idle"

CleanInit ==
    /\ clean_in \in CleanInputs
    /\ clean_once = <<>>
    /\ clean_twice = <<>>
    /\ clean_pc = "start"

\* the text is normalized
CleanFirst ==
    /\ clean_pc = "start"
    /\ clean_once' = cleanup_plaintext(clean_in)
    /\ clean_pc' = "once"
    /\ UNCHANGED <<clean_in, clean_twice>>

\* the normalized text is normalized again
CleanAgain ==
    /\ clean_pc = "once"
    /\ clean_twice' = cleanup_plaintext(clean_once)
    /\ clean_pc' = "twice"
    /\ UNCHANGED <<clean_in, clean_once>>

CleanNext ==
    \/ CleanFirst /\ UNCHANGED <<splitVars, budgetVars, loadVars, uploadVars, readVars, abstractVars, endpointVars>>
    \/ CleanAgain /\ UNCHANGED <<splitVars, budgetVars, loadVars, uploadVars, readVars, abstractVars, endpointVars>>
----------------------------------------------------------------------------
(* The token-budget splitter, spec section 4.5.  A chunk is the token count of
   its "heading [SEP] " prefix (0 without heading) and its content, a sequence
   of words.  A word has a token count and a kind: "b" when a list marker
   stands before it, "s" when it ends with sentence punctuation, "w" else.
   Words are one token each, but for one long word of several tokens. *)

Words ==
    { [tok |-> 1, kind |-> "w"], [tok |-> 1, kind |-> "b"], [tok |-> 1, kind |-> "s"],
      [tok |-> LongWordTokens, kind |-> "w"] }

RECURSIVE SumTokens(_)
SumTokens(ws) == IF ws = <<>> THEN 0 ELSE Head(ws).tok + SumTokens(Tail(ws))

\* the measured token count of a serialized chunk
TokenCount(c) == c.head + SumTokens(c.words)

\* step 2: the content has a bullet or numbered-list marker
HasListMarker(ws) == \E k \in 1..Len(ws) : ws[k].kind = "b"

\* step 3: the content has sentence-ending punctuation
HasSentenceEnd(ws) == \E k \in 1..Len(ws) : ws[k].kind = "s"

\* step 2: split at the markers, each marker kept with the segment after it
RECURSIVE ListSegments(_, _)
ListSegments(ws, cur) ==
    IF ws = <<>> THEN (IF cur = <<>> THEN <<>> ELSE <<cur>>)
    ELSE IF Head(ws).kind = "b"
         THEN (IF cur = <<>> THEN <<>> ELSE <<cur>>) \o ListSegments(Tail(ws), <<Head(ws)>>)
         ELSE ListSegments(Tail(ws), Append(cur, Head(ws)))

\* step 3: split after every word that ends a sentence
RECURSIVE Sentences(_, _)
Sentences(ws, cur) ==
    IF ws = <<>> THEN (IF cur = <<>> THEN <<>> ELSE <<cur>>)
    ELSE IF Head(ws).kind = "s"
         THEN <<Append(cur, Head(ws))>> \o Sentences(Tail(ws), <<>>)
         ELSE Sentences(Tail(ws), Append(cur, Head(ws)))

\* steps 2 and 3: accumulate segments, flushing when the next segment would
\* take the running chunk (heading prefix included) over the ceiling
RECURSIVE Accumulate(_, _, _, _)
Accumulate(segs, cur, head, ceiling) ==
    IF segs = <<>> THEN (IF cur = <<>> THEN <<>> ELSE <<cur>>)
    ELSE IF cur # <<>> /\ head + SumTokens(cur) + SumTokens(Head(segs)) > ceiling
         THEN <<cur>> \o Accumulate(Tail(segs), Head(segs), head, ceiling)
         ELSE Accumulate(Tail(segs), cur \o Head(segs), head, ceiling)

\* step 4: ceiling * 0.75 words per batch
WordsPerBatch(ceiling) == (ceiling * 3) \div 4

RECURSIVE WordBatches(_, _)
WordBatches(ws, n) ==
    IF ws = <<>> THEN <<>>
    ELSE IF Len(ws) <= n THEN <<ws>>
    ELSE <<SubSeq(ws, 1, n)>> \o WordBatches(SubSeq(ws, n + 1, Len(ws)), n)

\* steps 2-4, first match wins: the contents of the sub-chunks
SplitContent(c, ceiling) ==
    IF HasListMarker(c.words)
    THEN Accumulate(ListSegments(c.words, <<>>), <<>>, c.head, ceiling)
    ELSE IF HasSentenceEnd(c.words)
    THEN Accumulate(Sentences(c.words, <<>>), <<>>, c.head, ceiling)
    ELSE WordBatches(c.words, WordsPerBatch(ceiling))

\* every sub-chunk gets the heading prefix of the chunk again
SubChunks(c, ceiling) ==
    LET parts == SplitContent(c, ceiling)
    IN [k \in 1..Len(parts) |-> [head |-> c.head, words |-> parts[k]]]

\* a splitter without the base case
IrreducibleNever(c, ceiling) == FALSE

\* the base case: no strategy reduced the chunk
Irreducible(c, ceiling) == SubChunks(c, ceiling) = <<c>>

BudgetIdle ==
    max_tokens = 0 /\ work = <<>> /\ result_chunks = <<>> /\ budget_pc = "idle"

BudgetInit ==
    /\ max_tokens \in 2..MaxCeiling
    /\ \E h \in 0..MaxHeadingTokens, ws \in SeqsUpTo(Words, MaxWords) :
          /\ ws # <<>>
          /\ work = << [head |-> h, words |-> ws] >>
    /\ result_chunks = <<>>
    /\ budget_pc = "run"

\* step 1: a chunk at or under the ceiling is returned unchanged
BudgetKeep ==
    /\ budget_pc = "run" /\ work # <<>>
    /\ TokenCount(Head(work)) <= max_tokens
    /\ result_chunks' = Append(result_chunks, Head(work))
    /\ work' = Tail(work)
    /\ UNCHANGED <<max_tokens, budget_pc>>

\* the guarantee: a chunk over the ceiling that no strategy reduces is
\* returned as it is
BudgetAsIs ==
    /\ budget_pc = "run" /\ work # <<>>
    /\ TokenCount(Head(work)) > max_tokens
    /\ Irreducible(Head(work), max_tokens)
    /\ result_chunks' = Append(result_chunks, Head(work))
    /\ work' = Tail(work)
    /\ UNCHANGED <<max_tokens, budget_pc>>

\* steps 2-5: a chunk over the ceiling is split and the procedure is applied
\* again to its sub-chunks, in order
BudgetSplit ==
    /\ budget_pc = "run" /\ work # <<>>
    /\ TokenCount(Head(work)) > max_tokens
    /\ ~Irreducible(Head(work), max_tokens)
    /\ work' = SubChunks(Head(work), max_tokens) \o Tail(work)
    /\ UNCHANGED <<max_tokens, result_chunks, budget_pc>>

\* nothing is left to examine: the splitter returns
BudgetReturn ==
    /\ budget_pc = "run" /\ work = <<>>
    /\ budget_pc' = "done"
    /\ UNCHANGED <<max_tokens, work, result_chunks>>

BudgetNext ==
    \/ BudgetKeep /\ UNCHANGED <<splitVars, cleanVars, loadVars, uploadVars, readVars, abstractVars, endpointVars>>
    \/ BudgetAsIs /\ UNCHANGED <<splitVars, cleanVars, loadVars, uploadVars, readVars, abstractVars, endpointVars>>
    \/ BudgetSplit /\ UNCHANGED <<splitVars, cleanVars, loadVars, uploadVars, readVars, abstractVars, endpointVars>>
    \/ BudgetReturn /\ UNCHANGED <<splitVars, cleanVars, loadVars, uploadVars, readVars, abstractVars, endpointVars>>

----------------------------------------------------------------------------
(* document_processor.py: a directory batch.  A file is its name (stem and
   extension) and what its processing meets:
     content      the extracted text (extraction failures return "", lines
                  68-71 and 94-96)
     blank        the extracted text is empty or whitespace
     psf_raises   process_single_file raises
     n            the number of chunks process_single_file returns
     meta_raises  create_file_metadata or a metadata constructor raises
   A doc_id "{stem}_{k}" is the pair <<stem, k>>. *)

Stems == {"a", "b"}
Extensions == {".md", ".docx", ".pdf", ".txt"}

\* line 31
SUPPORTED_EXTENSIONS == {".md", ".docx", ".pdf"}

\* line 349: file_patterns = ["*.txt", "*.pdf", "*.md"]
FilePatterns == <<".txt", ".pdf", ".md">>

\* the texts extraction may give
Contents == { <<>>, <<" ", NL>>, <<"x">> }

\* a process_document_content without the check of line 221
NoContentNever(content) == FALSE

\* line 221: not content.strip()
NoContent(content) == Strip(content) = <<>>

Fates ==
    {[content |-> c, blank |-> TRUE, psf_raises |-> FALSE, n |-> 0,
      meta_raises |-> FALSE] : c \in {t \in Contents : Strip(t) = <<>>}}
    \cup {[content |-> c, blank |-> FALSE, psf_raises |-> TRUE, n |-> 0,
           meta_raises |-> m] :
            c \in {t \in Contents : Strip(t) # <<>>}, m \in BOOLEAN}
    \cup {[content |-> c, blank |-> FALSE, psf_raises |-> FALSE, n |-> k,
           meta_raises |-> m] :
            c \in {t \in Contents : Strip(t) # <<>>}, k \in 0..MaxChunks, m \in BOOLEAN}

FileNames == Stems \X Extensions

FileOf(name, fate) ==
    [stem |-> name[1], ext |-> name[2], content |-> fate.content, blank |-> fate.blank,
     psf_raises |-> fate.psf_raises, n |-> fate.n, meta_raises |-> fate.meta_raises]

FileName(f) == <<f.stem, f.ext>>

\* the sets of at most MaxFiles file names a directory may hold
NameSets == {ns \in SUBSET FileNames : Cardinality(ns) <= MaxFiles}

\* a ProcessingResult; raised marks that the call raised instead of returning
NoResult ==
    [raised |-> FALSE, documents |-> <<>>, ids |-> <<>>, doc_metadatas |-> <<>>,
     file_metadatas |-> <<>>]

Raised == [NoResult EXCEPT !.raised = TRUE]

\* lines 166-196: the FileMetadata of a file
FileMetadataOf(f) == [filename |-> FileName(f), file_type |-> f.ext]

\* chunking.process_single_file: the chunks of a file after token-budget
\* splitting, numbered by output order from 1, doc_id "{stem}_{chunk_number}"
ProcessSingleFile(f) ==
    [k \in 1..f.n |->
        [text |-> <<f.stem, f.ext, k>>,
         metadata |-> [doc_id |-> <<f.stem, k>>, chunk_number |-> k,
                       section |-> IF k = 1 THEN "No Heading" ELSE "Heading"]]]

\* lines 240-271
AdvancedChunking(f) ==
    IF f.psf_raises \/ f.meta_raises THEN Raised
    ELSE LET all_chunk_data == ProcessSingleFile(f) IN
         [raised |-> FALSE,
          documents |-> [k \in 1..Len(all_chunk_data) |-> all_chunk_data[k].text],
          doc_metadatas |-> [k \in 1..Len(all_chunk_data) |-> all_chunk_data[k].metadata],
          file_metadatas |-> [k \in 1..Len(all_chunk_data) |-> FileMetadataOf(f)],
          ids |-> [k \in 1..Len(all_chunk_data) |-> all_chunk_data[k].metadata.doc_id]]

\* a simple chunking that numbers its one chunk 0
SimpleChunkingFromZero(f) ==
    IF f.meta_raises THEN Raised
    ELSE [raised |-> FALSE,
          documents |-> << <<f.stem, f.ext, "full">> >>,
          ids |-> << FileName(f) >>,
          doc_metadatas |-> << [doc_id |-> <<f.stem, 1>>, chunk_number |-> 0,
                                section |-> "Full Document"] >>,
          file_metadatas |-> << FileMetadataOf(f) >>]

\* lines 274-308: the whole document as one chunk
SimpleChunking(f) ==
    IF f.meta_raises THEN Raised
    ELSE [raised |-> FALSE,
          documents |-> << <<f.stem, f.ext, "full">> >>,
          ids |-> << FileName(f) >>,
          doc_metadatas |-> << [doc_id |-> <<f.stem, 1>>, chunk_number |-> 1,
                                section |-> "Full Document"] >>,
          file_metadatas |-> << FileMetadataOf(f) >>]

\* an except clause (lines 232-234) that gives the file up
FallbackNone(f) == NoResult

\* lines 232-237: advanced chunking raised, the simple processing takes over
Fallback(f) == SimpleChunking(f)

\* lines 203-237
ProcessDocumentContent(f) ==
    IF NoContent(f.content) THEN NoResult
    ELSE IF f.ext \in SUPPORTED_EXTENSIONS
    THEN (IF AdvancedChunking(f).raised THEN Fallback(f) ELSE AdvancedChunking(f))
    ELSE SimpleChunking(f)

\* lines 402-407: one combined metadata dict per (doc_meta, file_meta) pair
CombinedMetadatas(r) ==
    LET m == IF Len(r.doc_metadatas) <= Len(r.file_metadatas)
             THEN Len(r.doc_metadatas) ELSE Len(r.file_metadatas)
    IN [k \in 1..m |->
            [doc_id |-> r.doc_metadatas[k].doc_id,
             chunk_number |-> r.doc_metadatas[k].chunk_number,
             section |-> r.doc_metadatas[k].section,
             filename |-> r.file_metadatas[k].filename,
             file_type |-> r.file_metadatas[k].file_type]]

\* the orders glob may list a set of files in
Orderings(S) ==
    {q \in [1..Cardinality(S) -> S] : \A i, j \in 1..Cardinality(S) : i # j => q[i] # q[j]}

\* lines 339-356: the files matching each pattern, pattern after pattern
SupportedFileLists(d) ==
    {q1 \o q2 \o q3 :
        q1 \in Orderings({f \in d : f.ext = FilePatterns[1]}),
        q2 \in Orderings({f \in d : f.ext = FilePatterns[2]}),
        q3 \in Orderings({f \in d : f.ext = FilePatterns[3]})}

\* an except clause that lets the error out of the batch
ExceptReraises == "raised"

\* lines 416-418: the error is printed and the loop continues
ExceptContinues == "loop"

LoadIdle ==
    /\ directory = {} /\ file_paths = <<>> /\ file_i = 0
    /\ all_documents = <<>> /\ all_metadatas = <<>> /\ all_ids = <<>>
    /\ load_pc = "idle" /\ load_failed = {}

LoadInit ==
    /\ \E names \in NameSets : \E fates \in [names -> Fates] :
          directory = {FileOf(name, fates[name]) : name \in names}
    /\ file_paths = <<>>
    /\ file_i = 0
    /\ all_documents = <<>>
    /\ all_metadatas = <<>>
    /\ all_ids = <<>>
    /\ load_pc = "start"
    /\ load_failed = {}

\* lines 375-386
LoadStart ==
    /\ load_pc = "start"
    /\ file_paths' \in SupportedFileLists(directory)
    /\ file_i' = 1
    /\ load_pc' = IF file_paths' = <<>> THEN "done" ELSE "loop"
    /\ UNCHANGED <<directory, all_documents, all_metadatas, all_ids, load_failed>>

\* lines 388-414: a file is processed and its result is aggregated
LoadFile ==
    /\ load_pc = "loop"
    /\ file_i <= Len(file_paths)
    /\ LET result == ProcessDocumentContent(file_paths[file_i]) IN
         /\ ~result.raised
         /\ all_documents' = all_documents \o result.documents
         /\ all_ids' = all_ids \o result.ids
         /\ all_metadatas' = all_metadatas \o CombinedMetadatas(result)
    /\ file_i' = file_i + 1
    /\ UNCHANGED <<directory, file_paths, load_pc, load_failed>>

\* lines 397-407, 416-418: the documents and the ids of the file are already in
\* the lists (lines 397-398) when building the combined metadata of one of its
\* chunks raises (model_dump, lines 402-405); the records of the chunks before
\* it are in all_metadatas, the error is printed and the loop continues
LoadFileFailsAggregating ==
    /\ load_pc = "loop"
    /\ file_i <= Len(file_paths)
    /\ LET result == ProcessDocumentContent(file_paths[file_i]) IN
         /\ ~result.raised
         /\ \E k \in 1..Len(CombinedMetadatas(result)) :
               all_metadatas' = all_metadatas \o SubSeq(CombinedMetadatas(result), 1, k - 1)
         /\ all_documents' = all_documents \o result.documents
         /\ all_ids' = all_ids \o result.ids
    /\ load_failed' = load_failed \cup {FileName(file_paths[file_i])}
    /\ file_i' = file_i + 1
    /\ UNCHANGED <<directory, file_paths, load_pc>>

\* lines 416-418: processing the file raised
LoadFileFails ==
    /\ load_pc = "loop"
    /\ file_i <= Len(file_paths)
    /\ ProcessDocumentContent(file_paths[file_i]).raised
    /\ load_pc' = ExceptContinues
    /\ load_failed' = load_failed \cup {FileName(file_paths[file_i])}
    /\ file_i' = file_i + 1
    /\ UNCHANGED <<directory, file_paths, all_documents, all_metadatas, all_ids>>

\* lines 420-421
LoadReturn ==
    /\ load_pc = "loop"
    /\ file_i > Len(file_paths)
    /\ load_pc' = "done"
    /\ UNCHANGED <<directory, file_paths, file_i, all_documents, all_metadatas, all_ids,
                   load_failed>>

LoadNext ==
    \/ LoadStart /\ UNCHANGED <<splitVars, cleanVars, budgetVars, uploadVars, readVars, abstractVars, endpointVars>>
    \/ LoadFile /\ UNCHANGED <<splitVars, cleanVars, budgetVars, uploadVars, readVars, abstractVars, endpointVars>>
    \/ LoadFileFails /\ UNCHANGED <<splitVars, cleanVars, budgetVars, uploadVars, readVars, abstractVars, endpointVars>>
    \/ LoadFileFailsAggregating
          /\ UNCHANGED <<splitVars, cleanVars, budgetVars, uploadVars, readVars, abstractVars, endpointVars>>
    \/ LoadReturn /\ UNCHANGED <<splitVars, cleanVars, budgetVars, uploadVars, readVars, abstractVars, endpointVars>>

----------------------------------------------------------------------------
(* upload_supa.py, process_directory, with supa.py's upload_documents_to_sql
   and upload_single_file_to_storage.  The source directory is the variable
   directory; the loader is called as lines 363-421 above.  The first run
   meets any failures of the database, the storage and the move; in a later
   run the services work.  What fails for which file is drawn when the
   per-file loop starts:
     "none"      nothing fails
     "metadata"  the select or the insert into filemetadata fails
     "content"   the insert into largeobject raises
     "storage"   the storage upload raises
     "move"      os.rename raises *)

PDFates == {"none", "metadata", "content", "storage", "move"}

\* the file names of a set of files
NamesOf(d) == {FileName(f) : f \in d}

\* lines 41-57: the file names of the loaded records, by first appearance
RECURSIVE GroupByFilename(_, _)
GroupByFilename(metas, seen) ==
    IF metas = <<>> THEN <<>>
    ELSE IF Head(metas).filename \in seen THEN GroupByFilename(Tail(metas), seen)
    ELSE <<Head(metas).filename>>
         \o GroupByFilename(Tail(metas), seen \cup {Head(metas).filename})

\* supa.py:51-177 for the records of one file: whether it raises, and the
\* tables after it
upload_documents_to_sql(name, fate) ==
    IF name \in filemetadata
    THEN \* lines 110-115, 162-164: the document already exists
         [raised |-> TRUE, filemetadata |-> filemetadata, largeobject |-> largeobject]
    ELSE IF fate = "metadata"
    THEN \* lines 103-108, 118-138
         [raised |-> TRUE, filemetadata |-> filemetadata, largeobject |-> largeobject]
    ELSE IF fate = "content"
    THEN \* lines 144-151 raise after the insert of lines 118-132
         [raised |-> TRUE, filemetadata |-> filemetadata \cup {name},
          largeobject |-> largeobject]
    ELSE [raised |-> FALSE, filemetadata |-> filemetadata \cup {name},
          largeobject |-> largeobject \cup {name}]

\* supa.py:179-211: TRUE when the upload went through
upload_single_file_to_storage(name, fate) == fate # "storage"

\* the files that stayed in the source directory because a step failed for
\* them, this file added when something failed for it
LeftBehind(name) ==
    IF pd_fate[name] # "none" THEN left_behind \cup {name} ELSE left_behind

\* an except clause that gives up the whole run
FileErrorStops == "raised"

\* upload_supa.py:90-94: the error is printed and the loop continues
FileErrorContinues == "loop"

UploadIdle ==
    /\ to_dir = {} /\ filemetadata = {} /\ largeobject = {} /\ storage = {}
    /\ files_data = <<>> /\ pd_i = 0 /\ pd_pc = "idle" /\ processed_any = FALSE
    /\ pd_run = 0 /\ pd_fate = <<>>
    /\ pd_before = [names |-> {}, filemetadata |-> {}]
    /\ left_behind = {}

\* the files the source directory of the upload runs may hold
UploadNames == { <<"a", ".md">>, <<"b", ".txt">>, <<"a", ".docx">> }

UploadInit ==
    /\ \E names \in NameSets \cap SUBSET UploadNames : \E fates \in [names -> Fates] :
          directory = {FileOf(name, fates[name]) : name \in names}
    /\ file_paths = <<>> /\ file_i = 0
    /\ all_documents = <<>> /\ all_metadatas = <<>> /\ all_ids = <<>>
    /\ load_pc = "idle" /\ load_failed = {}
    /\ to_dir = {} /\ filemetadata = {} /\ largeobject = {} /\ storage = {}
    /\ files_data = <<>> /\ pd_i = 0 /\ pd_pc = "start" /\ processed_any = FALSE
    /\ pd_run = 1 /\ pd_fate = <<>>
    /\ pd_before = [names |-> {}, filemetadata |-> {}]
    /\ left_behind = {}

\* lines 34, 102-104: an empty directory, nothing to do
PDEmpty ==
    /\ pd_pc = "start"
    /\ directory = {}
    /\ pd_pc' = "done"
    /\ pd_before' = [names |-> NamesOf(directory), filemetadata |-> filemetadata]
    /\ files_data' = <<>> /\ pd_i' = 0 /\ pd_fate' = <<>>
    /\ UNCHANGED <<left_behind, to_dir, filemetadata, largeobject, storage, processed_any, pd_run>>
    /\ UNCHANGED loadVars

\* lines 34-35: the loader is called
PDLoad ==
    /\ pd_pc = "start"
    /\ directory # {}
    /\ load_pc' = "start"
    /\ file_paths' = <<>> /\ file_i' = 0
    /\ all_documents' = <<>> /\ all_metadatas' = <<>> /\ all_ids' = <<>>
    /\ load_failed' = {}
    /\ pd_pc' = "loading"
    /\ pd_before' = [names |-> NamesOf(directory), filemetadata |-> filemetadata]
    /\ files_data' = <<>> /\ pd_i' = 0 /\ pd_fate' = <<>>
    /\ UNCHANGED <<left_behind, directory, to_dir, filemetadata, largeobject, storage,
                   processed_any, pd_run>>

\* lines 37-39: the loader gave no chunk
PDNoDocuments ==
    /\ pd_pc = "loading" /\ load_pc = "done"
    /\ all_documents = <<>>
    /\ pd_pc' = "done"
    /\ UNCHANGED <<left_behind, to_dir, filemetadata, largeobject, storage, files_data, pd_i,
                   processed_any, pd_run, pd_fate, pd_before>>
    /\ UNCHANGED loadVars

\* lines 41-59: the records are grouped by file name
PDGroup ==
    /\ pd_pc = "loading" /\ load_pc = "done"
    /\ all_documents # <<>>
    /\ files_data' = GroupByFilename(
                        SubSeq(all_metadatas, 1,
                               IF Len(all_metadatas) < Len(all_documents)
                               THEN Len(all_metadatas) ELSE Len(all_documents)), {})
    /\ pd_fate' \in [ {files_data'[k] : k \in 1..Len(files_data')} ->
                        IF pd_run = 1 THEN PDFates ELSE {"none"} ]
    /\ pd_i' = 1
    /\ processed_any' = FALSE
    /\ pd_pc' = "loop"
    /\ UNCHANGED <<left_behind, to_dir, filemetadata, largeobject, storage, pd_run, pd_before>>
    /\ UNCHANGED loadVars

\* lines 62-64, 90-94: upload_documents_to_sql raises for the file
PDSqlFails ==
    /\ pd_pc = "loop" /\ pd_i <= Len(files_data)
    /\ LET name == files_data[pd_i]
           r == upload_documents_to_sql(name, pd_fate[name])
       IN /\ r.raised
          /\ filemetadata' = r.filemetadata
          /\ largeobject' = r.largeobject
    /\ pd_pc' = FileErrorContinues
    /\ left_behind' = LeftBehind(files_data[pd_i])
    /\ pd_i' = pd_i + 1
    /\ UNCHANGED <<to_dir, storage, files_data, processed_any, pd_run, pd_fate,
                   pd_before>>
    /\ UNCHANGED loadVars

\* lines 64-74, 79-80: the database has the file, the storage upload fails
PDStorageFails ==
    /\ pd_pc = "loop" /\ pd_i <= Len(files_data)
    /\ LET name == files_data[pd_i]
           r == upload_documents_to_sql(name, pd_fate[name])
       IN /\ ~r.raised
          /\ ~upload_single_file_to_storage(name, pd_fate[name])
          /\ filemetadata' = r.filemetadata
          /\ largeobject' = r.largeobject
    /\ left_behind' = LeftBehind(files_data[pd_i])
    /\ pd_i' = pd_i + 1
    /\ UNCHANGED <<to_dir, storage, files_data, pd_pc, processed_any, pd_run,
                   pd_fate, pd_before>>
    /\ UNCHANGED loadVars

\* lines 64-76, 81-85: both uploads went through, os.rename raises
PDMoveFails ==
    /\ pd_pc = "loop" /\ pd_i <= Len(files_data)
    /\ LET name == files_data[pd_i]
           r == upload_documents_to_sql(name, pd_fate[name])
       IN /\ ~r.raised
          /\ upload_single_file_to_storage(name, pd_fate[name])
          /\ pd_fate[name] = "move"
          /\ filemetadata' = r.filemetadata
          /\ largeobject' = r.largeobject
          /\ storage' = storage \cup {name}
    /\ processed_any' = TRUE
    /\ left_behind' = LeftBehind(files_data[pd_i])
    /\ pd_i' = pd_i + 1
    /\ UNCHANGED <<to_dir, files_data, pd_pc, pd_run, pd_fate, pd_before>>
    /\ UNCHANGED loadVars

\* lines 64-78: both uploads went through and the file is moved
PDMoved ==
    /\ pd_pc = "loop" /\ pd_i <= Len(files_data)
    /\ LET name == files_data[pd_i]
           r == upload_documents_to_sql(name, pd_fate[name])
       IN /\ ~r.raised
          /\ upload_single_file_to_storage(name, pd_fate[name])
          /\ pd_fate[name] # "move"
          /\ filemetadata' = r.filemetadata
          /\ largeobject' = r.largeobject
          /\ storage' = storage \cup {name}
          /\ directory' = {f \in directory : FileName(f) # name}
          /\ to_dir' = to_dir \cup {name}
    /\ processed_any' = TRUE
    /\ pd_i' = pd_i + 1
    /\ UNCHANGED <<left_behind, files_data, pd_pc, pd_run, pd_fate, pd_before>>
    /\ UNCHANGED <<file_paths, file_i, all_documents, all_metadatas, all_ids, load_pc,
                   load_failed>>

\* lines 96-101
PDReturn ==
    /\ pd_pc = "loop" /\ pd_i > Len(files_data)
    /\ pd_pc' = "done"
    /\ UNCHANGED <<left_behind, to_dir, filemetadata, largeobject, storage, files_data, pd_i,
                   processed_any, pd_run, pd_fate, pd_before>>
    /\ UNCHANGED loadVars

\* process_directory is run again on the same directories
PDAgain ==
    /\ pd_pc = "done"
    /\ pd_run < MaxRuns
    /\ pd_run' = pd_run + 1
    /\ pd_pc' = "start"
    /\ UNCHANGED <<left_behind, to_dir, filemetadata, largeobject, storage, files_data, pd_i,
                   processed_any, pd_fate, pd_before>>
    /\ UNCHANGED loadVars

UploadNext ==
    \/ PDEmpty /\ UNCHANGED <<splitVars, cleanVars, budgetVars, readVars, abstractVars, endpointVars>>
    \/ PDLoad /\ UNCHANGED <<splitVars, cleanVars, budgetVars, readVars, abstractVars, endpointVars>>
    \/ (pd_pc = "loading" /\ LoadNext)
    \/ PDNoDocuments /\ UNCHANGED <<splitVars, cleanVars, budgetVars, readVars, abstractVars, endpointVars>>
    \/ PDGroup /\ UNCHANGED <<splitVars, cleanVars, budgetVars, readVars, abstractVars, endpointVars>>
    \/ PDSqlFails /\ UNCHANGED <<splitVars, cleanVars, budgetVars, readVars, abstractVars, endpointVars>>
    \/ PDStorageFails /\ UNCHANGED <<splitVars, cleanVars, budgetVars, readVars, abstractVars, endpointVars>>
    \/ PDMoveFails /\ UNCHANGED <<splitVars, cleanVars, budgetVars, readVars, abstractVars, endpointVars>>
    \/ PDMoved /\ UNCHANGED <<splitVars, cleanVars, budgetVars, readVars, abstractVars, endpointVars>>
    \/ PDReturn /\ UNCHANGED <<splitVars, cleanVars, budgetVars, readVars, abstractVars, endpointVars>>
    \/ PDAgain /\ UNCHANGED <<splitVars, cleanVars, budgetVars, readVars, abstractVars, endpointVars>>

----------------------------------------------------------------------------
(* identify_doc_type and read_doc, chunking.py:172-202.  doc is the plain text
   pypandoc gives for the file. *)

AsciiUpper ==
    {"A", "B", "C", "D", "E", "F", "G", "H", "I", "J", "K", "L", "M",
     "N", "O", "P", "Q", "R", "S", "T", "U", "V", "W", "X", "Y", "Z"}

\* r'\r?\n\r?\n' matches at i: the text it matches, <<>> when it does not match
BlankLineAt(d, i) ==
    IF StartsAt(d, i, <<CR, NL, CR, NL>>) THEN <<CR, NL, CR, NL>>
    ELSE IF StartsAt(d, i, <<CR, NL, NL>>) THEN <<CR, NL, NL>>
    ELSE IF StartsAt(d, i, <<NL, CR, NL>>) THEN <<NL, CR, NL>>
    ELSE IF StartsAt(d, i, <<NL, NL>>) THEN <<NL, NL>>
    ELSE <<>>

\* the pattern of line 177, with the dash at the start of a line only
OutlinePatternAtLineStart(d, i) ==
    /\ (i = 1 \/ d[i - 1] = NL)
    /\ StartsAt(d, i, <<"-", " ">>)
    /\ LET j == FindFrom(d, i + 2, <<NL>>) IN
          /\ j # 0
          /\ BlankLineAt(d, j) # <<>>
          /\ j + Len(BlankLineAt(d, j)) <= Len(d)
          /\ d[j + Len(BlankLineAt(d, j))] \in AsciiUpper

\* line 177: r'- .*\r?\n\r?\n[A-Z]' matches at i; '.' matches every character
\* but LF, so the blank line starts at the first LF after "- ", or at the CR
\* before it
OutlinePatternAt(d, i) ==
    /\ StartsAt(d, i, <<"-", " ">>)
    /\ LET j == FindFrom(d, i + 2, <<NL>>) IN
          /\ j # 0
          /\ \/ /\ BlankLineAt(d, j) # <<>>
                /\ j + Len(BlankLineAt(d, j)) <= Len(d)
                /\ d[j + Len(BlankLineAt(d, j))] \in AsciiUpper
             \/ /\ j - 1 >= i + 2 /\ d[j - 1] = CR
                /\ BlankLineAt(d, j - 1) # <<>>
                /\ j - 1 + Len(BlankLineAt(d, j - 1)) <= Len(d)
                /\ d[j - 1 + Len(BlankLineAt(d, j - 1))] \in AsciiUpper

\* lines 172-180
identify_doc_type(d) ==
    IF \E i \in 1..Len(d) : OutlinePatternAt(d, i)
    THEN "TOC_WITHOUT_TITLE" ELSE "NO_TOC_TITLE"

\* the last place a blank line starts at, 0 when there is none
RECURSIVE LastBlankLine(_, _)
LastBlankLine(d, i) ==
    IF i < 1 THEN 0
    ELSE IF BlankLineAt(d, i) # <<>> THEN i ELSE LastBlankLine(d, i - 1)

\* a read_doc that splits at the last blank line
SplitPointLast(d) == LastBlankLine(d, Len(d))

\* the first place a blank line starts at, 0 when there is none
RECURSIVE FirstBlankLine(_, _)
FirstBlankLine(d, i) ==
    IF i > Len(d) THEN 0
    ELSE IF BlankLineAt(d, i) # <<>> THEN i ELSE FirstBlankLine(d, i + 1)

\* line 194: re.split(r'\r?\n\r?\n', doc, 1) splits at the first match
SplitPoint(d) == FirstBlankLine(d, 1)

DocPiecePool == { <<"-", " ">>, <<"a">>, <<"A">>, <<NL>>, <<CR, NL>> }

DocInputs == { Join(ps, <<>>) : ps \in SeqsUpTo(DocPiecePool, MaxDocPieces) }

ReadIdle ==
    doc = <<>> /\ doc_type = "" /\ rd_toc = <<>> /\ rd_text = <<>> /\ rd_pc = "idle"

ReadInit ==
    /\ doc \in DocInputs
    /\ doc_type = ""
    /\ rd_toc = <<>>
    /\ rd_text = <<>>
    /\ rd_pc = "start"

\* line 187
RDIdentify ==
    /\ rd_pc = "start"
    /\ doc_type' = identify_doc_type(doc)
    /\ rd_pc' = "typed"
    /\ UNCHANGED <<doc, rd_toc, rd_text>>

\* lines 192-198, 202: the text is split at the blank line after the outline
RDSplitOutline ==
    /\ rd_pc = "typed"
    /\ doc_type = "TOC_WITHOUT_TITLE"
    /\ LET k == SplitPoint(doc) IN
          IF k # 0
          THEN /\ rd_toc' = SubSeq(doc, 1, k - 1)
               /\ rd_text' = SubSeq(doc, k + Len(BlankLineAt(doc, k)), Len(doc))
          ELSE /\ rd_toc' = <<>>
               /\ rd_text' = doc
    /\ rd_pc' = "done"
    /\ UNCHANGED <<doc, doc_type>>

\* lines 199-202: no outline (the type of line 189 is never returned)
RDNoOutline ==
    /\ rd_pc = "typed"
    /\ doc_type # "TOC_WITHOUT_TITLE"
    /\ rd_toc' = <<>>
    /\ rd_text' = doc
    /\ rd_pc' = "done"
    /\ UNCHANGED <<doc, doc_type>>

ReadNext ==
    \/ RDIdentify /\ UNCHANGED <<splitVars, cleanVars, budgetVars, loadVars, uploadVars, abstractVars, endpointVars>>
    \/ RDSplitOutline /\ UNCHANGED <<splitVars, cleanVars, budgetVars, loadVars, uploadVars, abstractVars, endpointVars>>
    \/ RDNoOutline /\ UNCHANGED <<splitVars, cleanVars, budgetVars, loadVars, uploadVars, abstractVars, endpointVars>>

----------------------------------------------------------------------------
(* document_processor.py, generate_abstract (lines 140-163).  The text is a
   sequence of characters; indexes into it are counted from 0 as in Python. *)

\* line 151: the characters re's \s and str.strip() take as whitespace
Whitespace == {" ", NL, CR, "\t"}

\* line 151: re.sub(r'\s+', ' ', s): every run of whitespace becomes one space
RECURSIVE CollapseWhitespace(_)
CollapseWhitespace(s) ==
    IF s = <<>> THEN <<>>
    ELSE IF Head(s) \in Whitespace
         THEN <<" ">> \o CollapseWhitespace(LStripSet(Tail(s), Whitespace))
         ELSE <<Head(s)>> \o CollapseWhitespace(Tail(s))

\* line 151: text = re.sub(r'\s+', ' ', text.strip())
NormalizeWhitespace(s) == CollapseWhitespace(Strip(s))

\* lines 154 and 160: s[:n] for n >= 0
Slice(s, n) == SubSeq(s, 1, IF Len(s) < n THEN Len(s) ELSE n)

\* line 158: s.rfind(c), the index from 0 of the last c in s, -1 when none
RFind(s, c) ==
    LET at == {i \in 1..Len(s) : s[i] = c}
    IN IF at = {} THEN -1 ELSE (CHOOSE i \in at : \A j \in at : j <= i) - 1

\* a generate_abstract that looks for a sentence end in every text
LongerThanAlways(s, n) == TRUE

\* line 157: len(text) > max_length
LongerThan(s, n) == Len(s) > n

\* lines 151-162
generate_abstract(t, n) ==
    LET normalized == NormalizeWhitespace(t)
        first == Slice(normalized, n)
        last_period == RFind(first, ".")
    IN IF LongerThan(normalized, n) /\ last_period > n \div 2
       THEN Slice(first, last_period + 1)
       ELSE first

\* the characters a document text is drawn from
AbstractPiecePool == {"a", ".", " ", NL}

AbstractIdle ==
    /\ ab_text = <<>> /\ max_length = 0 /\ abstract = <<>> /\ ab_pc = "idle"

AbstractInit ==
    /\ \E n \in 0..MaxAbstractPieces : ab_text \in [1..n -> AbstractPiecePool]
    /\ max_length \in 0..MaxAbstractLength
    /\ abstract = <<>>
    /\ ab_pc = "start"

\* lines 140-162: the call
GenerateAbstract ==
    /\ ab_pc = "start"
    /\ abstract' = generate_abstract(ab_text, max_length)
    /\ ab_pc' = "done"
    /\ UNCHANGED <<ab_text, max_length>>

AbstractNext ==
    GenerateAbstract
      /\ UNCHANGED <<splitVars, cleanVars, budgetVars, loadVars, uploadVars, readVars,
                     endpointVars>>

----------------------------------------------------------------------------
(* APIendpoint.py, handle_upload (lines 114-165).  What the calls of the
   handler do for a request is part of the request:
     filename      the name of the uploaded file
     available     collection_user is not None
     save          save_uploaded_file: "ok", "open" (open raises, no file is
                   written) or "copy" (copyfileobj raises, the file is there)
     load          load_user_document: "content", "none" (content is None, a
                   message says why) or "raises"
     add_raises    collection_user.add raises
     supa_moves    process_directory moves the file to the user-uploads
                   directory (upload_to_supabase never raises, lines 100-111)
   A response is its status code and its detail; the detail of the error
   responses is the message of load_user_document, or that message wrapped as
   f"Error processing file: {str(e)}". *)

UploadFileNames == {"a.md", "b.pdf"}

HURequests ==
    [filename : UploadFileNames, available : BOOLEAN, save : {"ok", "open", "copy"},
     load : {"content", "none", "raises"}, add_raises : BOOLEAN, supa_moves : BOOLEAN]

\* the exceptions an "except Exception" clause catches (line 159):
\* fastapi.HTTPException is a subclass of Exception
ExceptException == {"HTTPException", "Exception"}

\* str(e) of the exception in flight inside the detail of line 163
Wrapped(e) == <<"Error processing file: ", e>>

EndpointIdle ==
    /\ hu_request = <<>> /\ new_uploads = {} /\ user_ids = {}
    /\ hu_exception = <<>> /\ hu_status = 0 /\ hu_detail = <<>>
    /\ hu_closed = FALSE /\ hu_pc = "idle"

EndpointInit ==
    /\ hu_request \in HURequests
    /\ new_uploads \in SUBSET UploadFileNames
    /\ user_ids = {}
    /\ hu_exception = <<>>
    /\ hu_status = 0
    /\ hu_detail = <<>>
    /\ hu_closed = FALSE
    /\ hu_pc = "start"

\* lines 126-130: raised outside the try statement, so no clause of it runs
HUUnavailable ==
    /\ hu_pc = "start"
    /\ ~hu_request.available
    /\ hu_status' = 503
    /\ hu_detail' = <<"Database not available">>
    /\ hu_pc' = "done"
    /\ UNCHANGED <<hu_request, new_uploads, user_ids, hu_exception, hu_closed>>

\* lines 133-138, 92-97: the file is saved
HUSave ==
    /\ hu_pc = "start"
    /\ hu_request.available
    /\ new_uploads' = IF hu_request.save = "open" THEN new_uploads
                      ELSE new_uploads \cup {hu_request.filename}
    /\ hu_exception' = IF hu_request.save = "ok" THEN <<>>
                       ELSE <<"Exception", "save">>
    /\ hu_pc' = IF hu_request.save = "ok" THEN "saved" ELSE "raised"
    /\ UNCHANGED <<hu_request, user_ids, hu_status, hu_detail, hu_closed>>

\* lines 141-142: the document is processed
HULoad ==
    /\ hu_pc = "saved"
    /\ hu_exception' = IF hu_request.load = "raises" THEN <<"Exception", "load">> ELSE <<>>
    /\ hu_pc' = CASE hu_request.load = "raises" -> "raised"
                  [] hu_request.load = "none" -> "no_content"
                  [] OTHER -> "loaded"
    /\ UNCHANGED <<hu_request, new_uploads, user_ids, hu_status, hu_detail, hu_closed>>

\* lines 145-147: no content, the file is removed and HTTPException(400) is
\* raised inside the try statement
HUNoContent ==
    /\ hu_pc = "no_content"
    /\ new_uploads' = new_uploads \ {hu_request.filename}
    /\ hu_exception' = <<"HTTPException", "400: message">>
    /\ hu_pc' = "raised"
    /\ UNCHANGED <<hu_request, user_ids, hu_status, hu_detail, hu_closed>>

\* lines 150-151: the document is added to the user collection
HUAdd ==
    /\ hu_pc = "loaded"
    /\ user_ids' = IF hu_request.add_raises THEN user_ids
                   ELSE user_ids \cup {hu_request.filename}
    /\ hu_exception' = IF hu_request.add_raises THEN <<"Exception", "add">> ELSE <<>>
    /\ hu_pc' = IF hu_request.add_raises THEN "raised" ELSE "added"
    /\ UNCHANGED <<hu_request, new_uploads, hu_status, hu_detail, hu_closed>>

\* lines 154-157: the directory is uploaded and the success response returned
HUSupabase ==
    /\ hu_pc = "added"
    /\ new_uploads' = IF hu_request.supa_moves
                      THEN new_uploads \ {hu_request.filename} ELSE new_uploads
    /\ hu_status' = 200
    /\ hu_detail' = <<"Successfully uploaded and processed">>
    /\ hu_pc' = "finally"
    /\ UNCHANGED <<hu_request, user_ids, hu_exception, hu_closed>>

\* lines 159-163: an exception raised in the try block is caught; the file is
\* removed when it is there and HTTPException(500) replaces the exception
HUExcept ==
    /\ hu_pc = "raised"
    /\ hu_exception[1] \in ExceptException
    /\ new_uploads' = new_uploads \ {hu_request.filename}
    /\ hu_status' = 500
    /\ hu_detail' = Wrapped(hu_exception[2])
    /\ hu_exception' = <<"HTTPException", "500">>
    /\ hu_pc' = "finally"
    /\ UNCHANGED <<hu_request, user_ids, hu_closed>>

\* lines 164-165
HUClose ==
    /\ hu_pc = "finally"
    /\ hu_closed' = TRUE
    /\ hu_pc' = "done"
    /\ UNCHANGED <<hu_request, new_uploads, user_ids, hu_exception, hu_status, hu_detail>>

EndpointNext ==
    \/ HUUnavailable /\ UNCHANGED <<splitVars, cleanVars, budgetVars, loadVars, uploadVars, readVars, abstractVars>>
    \/ HUSave /\ UNCHANGED <<splitVars, cleanVars, budgetVars, loadVars, uploadVars, readVars, abstractVars>>
    \/ HULoad /\ UNCHANGED <<splitVars, cleanVars, budgetVars, loadVars, uploadVars, readVars, abstractVars>>
    \/ HUNoContent /\ UNCHANGED <<splitVars, cleanVars, budgetVars, loadVars, uploadVars, readVars, abstractVars>>
    \/ HUAdd /\ UNCHANGED <<splitVars, cleanVars, budgetVars, loadVars, uploadVars, readVars, abstractVars>>
    \/ HUSupabase /\ UNCHANGED <<splitVars, cleanVars, budgetVars, loadVars, uploadVars, readVars, abstractVars>>
    \/ HUExcept /\ UNCHANGED <<splitVars, cleanVars, budgetVars, loadVars, uploadVars, readVars, abstractVars>>
    \/ HUClose /\ UNCHANGED <<splitVars, cleanVars, budgetVars, loadVars, uploadVars, readVars, abstractVars>>

----------------------------------------------------------------------------
(* Specifications: one per part of the pipeline *)

InitSplit == SplitInit /\ CleanIdle /\ BudgetIdle /\ LoadIdle /\ UploadIdle /\ ReadIdle /\ AbstractIdle /\ EndpointIdle

SpecSplit == InitSplit /\ [][SplitNext]_vars

InitClean == CleanInit /\ SplitIdle /\ BudgetIdle /\ LoadIdle /\ UploadIdle /\ ReadIdle /\ AbstractIdle /\ EndpointIdle

SpecClean == InitClean /\ [][CleanNext]_vars

InitBudget == BudgetInit /\ SplitIdle /\ CleanIdle /\ LoadIdle /\ UploadIdle /\ ReadIdle /\ AbstractIdle /\ EndpointIdle

\* the splitter is a sequential procedure: it keeps running until it returns
SpecBudget == InitBudget /\ [][BudgetNext]_vars /\ WF_vars(BudgetNext)

InitLoad == LoadInit /\ SplitIdle /\ CleanIdle /\ BudgetIdle /\ UploadIdle /\ ReadIdle /\ AbstractIdle /\ EndpointIdle

SpecLoad == InitLoad /\ [][LoadNext]_vars

\* a directory with a file that has no content is loaded, and split_text is
\* called with an empty outline and an empty or blank body
EmptySplitInit ==
    /\ toc = <<>>
    /\ text \in { <<>>, <<" ">> }
    /\ headings = <<>> /\ paragraphs = <<>> /\ para_i = 0
    /\ current_heading = <<>> /\ current_content = <<>>
    /\ text_chunks = <<>> /\ split_pc = "start"

InitNoContent ==
    /\ LoadInit
    /\ \E f \in directory : f.blank
    /\ EmptySplitInit /\ CleanIdle /\ BudgetIdle /\ UploadIdle /\ ReadIdle /\ AbstractIdle /\ EndpointIdle

NoContentNext ==
    \/ LoadNext
    \/ SplitStart /\ UNCHANGED <<cleanVars, budgetVars, loadVars, uploadVars, readVars, abstractVars, endpointVars>>
    \/ SplitSkipBlank /\ UNCHANGED <<cleanVars, budgetVars, loadVars, uploadVars, readVars, abstractVars, endpointVars>>
    \/ SplitFinish /\ UNCHANGED <<cleanVars, budgetVars, loadVars, uploadVars, readVars, abstractVars, endpointVars>>

SpecNoContent == InitNoContent /\ [][NoContentNext]_vars

InitUpload == UploadInit /\ SplitIdle /\ CleanIdle /\ BudgetIdle /\ ReadIdle /\ AbstractIdle /\ EndpointIdle

SpecUpload == InitUpload /\ [][UploadNext]_vars

InitRead == ReadInit /\ SplitIdle /\ CleanIdle /\ BudgetIdle /\ LoadIdle /\ UploadIdle /\ AbstractIdle /\ EndpointIdle

SpecRead == InitRead /\ [][ReadNext]_vars

InitAbstract ==
    /\ AbstractInit /\ SplitIdle /\ CleanIdle /\ BudgetIdle /\ LoadIdle /\ UploadIdle
    /\ ReadIdle /\ EndpointIdle

SpecAbstract == InitAbstract /\ [][AbstractNext]_vars

InitEndpoint ==
    /\ EndpointInit /\ SplitIdle /\ CleanIdle /\ BudgetIdle /\ LoadIdle /\ UploadIdle
    /\ ReadIdle /\ AbstractIdle

SpecEndpoint == InitEndpoint /\ [][EndpointNext]_vars

----------------------------------------------------------------------------
(* Reading a chunk string back: "{heading} [SEP] {content}" or bare content *)

\* the part before the first " [SEP] ", empty for a chunk without one
ChunkHeading(c) ==
    LET k == FindFrom(c, 1, SEP) IN IF k = 0 THEN <<>> ELSE SubSeq(c, 1, k - 1)

\* the part after the first " [SEP] ", the whole chunk when there is none
ChunkContent(c) ==
    LET k == FindFrom(c, 1, SEP) IN
    IF k = 0 THEN c ELSE SubSeq(c, k + Len(SEP), Len(c))

RECURSIVE StripNonBlank(_)
StripNonBlank(ps) ==
    IF ps = <<>> THEN <<>>
    ELSE (IF Strip(Head(ps)) # <<>> THEN <<Strip(Head(ps))>> ELSE <<>>)
         \o StripNonBlank(Tail(ps))

\* the trimmed non-blank paragraphs of a body, in order
NonBlankParas(t) == StripNonBlank(SplitParagraphs(t))

\* heading (when there is one) and content of every chunk, in output order
RECURSIVE ChunkPieces(_)
ChunkPieces(cs) ==
    IF cs = <<>> THEN <<>>
    ELSE (IF ChunkHeading(Head(cs)) # <<>> THEN <<ChunkHeading(Head(cs))>> ELSE <<>>)
         \o <<ChunkContent(Head(cs))>> \o ChunkPieces(Tail(cs))

\* the headings of the chunks that carry one, in output order
RECURSIVE HeadingsOf(_)
HeadingsOf(cs) ==
    IF cs = <<>> THEN <<>>
    ELSE (IF ChunkHeading(Head(cs)) # <<>> THEN <<ChunkHeading(Head(cs))>> ELSE <<>>)
         \o HeadingsOf(Tail(cs))

Distinct(list) == \A i, j \in 1..Len(list) : i # j => list[i] # list[j]

RECURSIVE IsSubsequence(_, _)
IsSubsequence(a, b) ==
    IF a = <<>> THEN TRUE
    ELSE IF b = <<>> THEN FALSE
    ELSE IF Head(a) = Head(b) THEN IsSubsequence(Tail(a), Tail(b))
    ELSE IsSubsequence(a, Tail(b))

----------------------------------------------------------------------------
(* Claims about split_text *)

\* C1 (as claimed): when split_text returns, the headings and contents of the
\* chunks, in output order, are exactly the trimmed non-blank paragraphs of the
\* body, each once: nothing is dropped and nothing is duplicated.
C1_Coverage ==
    split_pc = "done" =>
        Join(ChunkPieces(text_chunks), <<" ">>) = Join(NonBlankParas(text), <<" ">>)

\* C2: when the headings parsed from the outline are pairwise distinct, no two
\* emitted chunks carry the same heading, whatever the body repeats.
C2_HeadingsUnique ==
    LET outline == ParseHeadings(toc)
        bound == HeadingsOf(text_chunks)
    IN Distinct(outline) => Distinct(bound)

\* C2 witness: a finished run with distinct outline headings, two chunks, and a
\* body that has a heading's text in two paragraphs.
C2_Witness ==
    /\ split_pc = "done"
    /\ Distinct(ParseHeadings(toc))
    /\ Len(text_chunks) >= 2
    /\ \E k \in 1..Len(ParseHeadings(toc)) :
          CountIn(NonBlankParas(text), ParseHeadings(toc)[k]) >= 2

\* C3 (as claimed): the headings of the emitted chunks, in output order, are a
\* subsequence of the outline's heading sequence.
C3_OutlineOrder ==
    IsSubsequence(HeadingsOf(text_chunks), ParseHeadings(toc))

\* C3 (amended): every heading of the outline binds at most once: for each
\* heading string, the chunks that carry it, the pending heading and the
\* headings still unconsumed never outnumber its occurrences in the outline.
C3_BindOnce ==
    split_pc # "start" =>
        LET outline == ParseHeadings(toc)
            bound == HeadingsOf(text_chunks)
        IN \A h \in {outline[k] : k \in 1..Len(outline)} :
              CountIn(bound, h)
                + (IF split_pc = "loop" /\ current_heading = h THEN 1 ELSE 0)
                + CountIn(headings, h)
              <= CountIn(outline, h)

\* C3 witness: a finished run whose chunks carry two outline headings in the
\* order of the body, which is not the order of the outline.
C3_Witness ==
    /\ split_pc = "done"
    /\ Len(HeadingsOf(text_chunks)) >= 2
    /\ ~IsSubsequence(HeadingsOf(text_chunks), ParseHeadings(toc))

\* C16: with an empty outline split_text returns one chunk without heading, the
\* trimmed non-blank paragraphs of the body joined by single spaces, and no
\* chunk when the body has no non-blank paragraph.
C16_NoOutlineOneChunk ==
    (split_pc = "done" /\ ParseHeadings(toc) = <<>>) =>
        text_chunks = IF NonBlankParas(text) = <<>> THEN <<>>
                      ELSE << Join(NonBlankParas(text), <<" ">>) >>

\* C16 witness: a finished run with an empty outline and a body of several
\* non-blank paragraphs and a blank one.
C16_Witness ==
    /\ split_pc = "done"
    /\ toc = <<>>
    /\ Len(NonBlankParas(text)) >= 2
    /\ Len(SplitParagraphs(text)) > Len(NonBlankParas(text))
    /\ Len(text_chunks) = 1

\* C17: every chunk with a heading is "{heading} [SEP] {content}": the heading
\* is a trimmed body paragraph that is a heading of the outline, the content is
\* the trimmed non-blank paragraphs after it, joined by single spaces, up to the
\* end of the body or to a paragraph that is a heading of the outline; a chunk
\* without heading is the joined paragraphs alone.
C17_ChunkShape ==
    split_pc = "done" =>
        LET paras == NonBlankParas(text)
            outline == ParseHeadings(toc)
        IN \A n \in 1..Len(text_chunks) :
              IF FindFrom(text_chunks[n], 1, SEP) # 0
              THEN \E i \in 1..Len(paras) : \E j \in (i + 1)..Len(paras) :
                      /\ InList(paras[i], outline)
                      /\ text_chunks[n] =
                            paras[i] \o SEP \o Join(SubSeq(paras, i + 1, j), <<" ">>)
                      /\ (j = Len(paras) \/ InList(paras[j + 1], outline))
              ELSE text_chunks[n] = Join(paras, <<" ">>)

\* C17 witness: a finished run over a heading, two paragraphs of content and
\* another heading of the outline: one chunk, the first heading with the two
\* paragraphs joined by a space.
C17_Witness ==
    /\ split_pc = "done"
    /\ LET paras == NonBlankParas(text) IN
          /\ Len(paras) = 4
          /\ InList(paras[1], ParseHeadings(toc))
          /\ InList(paras[4], ParseHeadings(toc))
          /\ paras[1] # paras[4]
          /\ text_chunks = << paras[1] \o SEP \o paras[2] \o <<" ">> \o paras[3] >>

\* the larger of two numbers
Max(a, b) == IF a >= b THEN a ELSE b

\* C27: at every point of split_text a chunk without heading is the only chunk
\* of the output, and the number of chunks is at most max(1, the number of
\* headings parsed from the outline).
C27_ChunkCount ==
    split_pc \in {"loop", "done"} =>
        /\ (\E n \in 1..Len(text_chunks) : FindFrom(text_chunks[n], 1, SEP) = 0)
              => Len(text_chunks) = 1
        /\ Len(text_chunks) <= Max(1, Len(ParseHeadings(toc)))

\* C27 witness: a finished run that gave as many chunks as the outline has
\* headings, more than one.
C27_Witness ==
    /\ split_pc = "done"
    /\ Len(ParseHeadings(toc)) >= 2
    /\ Len(text_chunks) = Len(ParseHeadings(toc))
    /\ Len(NonBlankParas(text)) >= 4

\* C27 witness: a finished run whose outline has headings, none of them in the
\* body, with one chunk without heading.
C27_WitnessHeadless ==
    /\ split_pc = "done"
    /\ ParseHeadings(toc) # <<>>
    /\ Len(NonBlankParas(text)) >= 2
    /\ Len(text_chunks) = 1
    /\ FindFrom(text_chunks[1], 1, SEP) = 0

----------------------------------------------------------------------------
(* Claims about cleanup_plaintext *)

\* C4 (as claimed): normalizing a normalized text changes nothing:
\* cleanup_plaintext(cleanup_plaintext(t)) = cleanup_plaintext(t).
C4_Idempotent == clean_pc = "twice" => clean_twice = clean_once

\* the character of s at position i, "" outside s
CharAt(s, i) == IF i \in 1..Len(s) THEN s[i] ELSE ""

\* the LF at position i of s is one of a run of exactly two LF
InPairOfNewlines(s, i) ==
    \/ /\ CharAt(s, i + 1) = NL
       /\ CharAt(s, i - 1) # NL /\ CharAt(s, i + 2) # NL
    \/ /\ CharAt(s, i - 1) = NL
       /\ CharAt(s, i - 2) # NL /\ CharAt(s, i + 1) # NL

\* every LF of s is one of a pair or stands right before "- "; s has no CR
CanonicalNewlines(s) ==
    \A i \in 1..Len(s) :
        /\ s[i] # CR
        /\ s[i] = NL =>
              \/ InPairOfNewlines(s, i)
              \/ CharAt(s, i + 1) = "-" /\ CharAt(s, i + 2) = " "
        /\ ~(s[i] = NL /\ CharAt(s, i + 1) = NL /\ CharAt(s, i + 2) = NL)

\* C25: in every output of cleanup_plaintext each LF is one of a run of exactly
\* two LF or is followed at once by "- "; no output has three LF in a row or
\* a CR.
C25_CanonicalNewlines ==
    /\ clean_pc \in {"once", "twice"} => CanonicalNewlines(clean_once)
    /\ clean_pc = "twice" => CanonicalNewlines(clean_twice)

\* C25 witness: an input with a CR and a run of LF longer than two, cleaned to a
\* text with a pair of LF.
C25_Witness ==
    /\ clean_pc = "once"
    /\ \E i \in 1..Len(clean_in) : clean_in[i] = CR
    /\ FindFrom(clean_in, 1, <<NL, NL>>) # 0
    /\ Len(clean_once) < Len(clean_in)
    /\ FindFrom(clean_once, 1, <<NL, NL>>) # 0

\* C25 witness: an input with a CR before a bullet, cleaned to a text whose LF
\* stands before "- ".
C25_WitnessBullet ==
    /\ clean_pc = "once"
    /\ FindFrom(clean_in, 1, <<CR, "-", " ">>) # 0
    /\ FindFrom(clean_once, 1, <<NL, "-", " ">>) # 0

\* C26 (as claimed): no output of cleanup_plaintext contains "[image]" or "[]".
C26_NoPlaceholders ==
    clean_pc \in {"once", "twice"} =>
        /\ FindFrom(clean_once, 1, IMAGE) = 0
        /\ FindFrom(clean_once, 1, <<"[", "]">>) = 0

----------------------------------------------------------------------------
(* Claims about the token-budget splitter *)

\* C5 (as claimed): every chunk the splitter returns is at or under the
\* ceiling, unless its content is a single word.
C5_TokenCeiling ==
    budget_pc = "done" =>
        \A k \in 1..Len(result_chunks) :
            \/ TokenCount(result_chunks[k]) <= max_tokens
            \/ Len(result_chunks[k].words) <= 1

----------------------------------------------------------------------------
(* Claims about the directory batch *)

\* the records of the batch result that belong to a file, in output order
RecordsOf(name) == SelectSeq(all_metadatas, LAMBDA m : m.filename = name)

\* the chunks of the batch result that come from a file
DocumentsOf(f) ==
    SelectSeq(all_documents, LAMBDA d : d[1] = f.stem /\ d[2] = f.ext)

C8_DocIdsUnique ==
    \A i, j \in 1..Len(all_metadatas) :
        i # j => all_metadatas[i].doc_id # all_metadatas[j].doc_id

\* C9: a file that fails never lets an error out of the batch and never stops
\* the files after it: when the batch returns, the chunks of every file that
\* processes successfully are in the result, whichever other files failed.
C9_ContinueOnError ==
    /\ load_pc # "raised"
    /\ load_pc = "done" =>
          \A i \in 1..Len(file_paths) :
              ~ProcessDocumentContent(file_paths[i]).raised =>
                  DocumentsOf(file_paths[i]) = ProcessDocumentContent(file_paths[i]).documents

\* C9 witness: a finished batch in which a file failed and a later file gave
\* chunks.
C9_Witness ==
    /\ load_pc = "done"
    /\ \E i, j \in 1..Len(file_paths) :
          /\ i < j
          /\ ProcessDocumentContent(file_paths[i]).raised
          /\ Len(DocumentsOf(file_paths[j])) >= 1

\* a file of a supported type whose text was extracted and for which
\* process_single_file raises
ChunkingFails(f) == ~f.blank /\ f.ext \in SUPPORTED_EXTENSIONS /\ f.psf_raises

C18_SectionValues ==
    \A k \in 1..Len(all_metadatas) :
        all_metadatas[k].section \in {"Heading", "No Heading"}

\* C20 (as claimed): the files a batch picks up are the files of the directory
\* with an extension of SUPPORTED_EXTENSIONS.
C20_AllowedTypes ==
    load_pc \in {"loop", "done"} =>
        {FileName(file_paths[i]) : i \in 1..Len(file_paths)} =
            {FileName(f) : f \in {g \in directory : g.ext \in SUPPORTED_EXTENSIONS}}

\* C21 (as claimed): the three lists of the batch have the same length, entry i
\* of each belongs to the same chunk, and a file the loader reported an error
\* for has no entry in any of them.
C21_ListsAligned ==
    /\ Len(all_documents) = Len(all_metadatas)
    /\ Len(all_ids) = Len(all_documents)
    /\ \A i \in 1..Len(all_documents) :
          /\ all_metadatas[i].filename = <<all_documents[i][1], all_documents[i][2]>>
          /\ all_ids[i][1] = all_documents[i][1]
    /\ \A name \in load_failed :
          /\ \A i \in 1..Len(all_documents) :
                <<all_documents[i][1], all_documents[i][2]>> # name
          /\ \A i \in 1..Len(all_metadatas) : all_metadatas[i].filename # name

\* C24 (as claimed): in the ProcessingResult of every processed file, entry k
\* of ids is the doc_id of entry k of doc_metadatas (the two are compared as
\* written out, a file name and a doc_id being of different shapes).
C24_IdsAreDocIds ==
    \A i \in 1..Len(file_paths) :
        i < file_i =>
            LET result == ProcessDocumentContent(file_paths[i]) IN
            \A k \in 1..Len(result.ids) :
                ToString(result.ids[k]) = ToString(result.doc_metadatas[k].doc_id)

----------------------------------------------------------------------------
(* Claims about documents without content *)

\* C11: a file whose extracted text is empty or whitespace-only contributes no
\* chunk and no record to the batch, no error leaves the batch, and split_text
\* with an empty outline and an empty body returns no chunk.
C11_NoContent ==
    /\ load_pc # "raised"
    /\ \A i \in 1..Len(file_paths) :
          (i < file_i /\ Strip(file_paths[i].content) = <<>>) =>
              /\ DocumentsOf(file_paths[i]) = <<>>
              /\ RecordsOf(FileName(file_paths[i])) = <<>>
    /\ (split_pc = "done" /\ Strip(toc) = <<>> /\ Strip(text) = <<>>) =>
          text_chunks = <<>>

\* C11 witness: a finished batch that met a file with whitespace-only text and a
\* file that gave chunks, and a finished split_text of an empty outline and body.
C11_Witness ==
    /\ load_pc = "done"
    /\ \E i, j \in 1..Len(file_paths) :
          /\ file_paths[i].content # <<>>
          /\ Strip(file_paths[i].content) = <<>>
          /\ Len(DocumentsOf(file_paths[j])) >= 1
    /\ split_pc = "done" /\ toc = <<>> /\ text = <<>> /\ text_chunks = <<>>

----------------------------------------------------------------------------
(* Claims about process_directory *)

\* a file of the run for which nothing fails: it gave chunks, it was not in the
\* database when the run started, and no service and no move fails for it
ProcessingSucceeds(name) ==
    /\ name \in DOMAIN pd_fate
    /\ pd_fate[name] = "none"
    /\ name \notin pd_before.filemetadata

\* C12: when a run of process_directory ends, every file of the source
\* directory whose processing succeeded is in the destination directory and
\* every other file is still in the source directory, whatever failed for the
\* files before it.
C12_MoveRule ==
    pd_pc \in {"done", "raised"} =>
        \A name \in pd_before.names :
            IF ProcessingSucceeds(name)
            THEN name \in to_dir /\ name \notin NamesOf(directory)
            ELSE name \in NamesOf(directory) /\ name \notin to_dir

\* C12 witness: a finished run in which the upload of a file failed and a file
\* after it was moved.
C12_Witness ==
    /\ pd_pc = "done"
    /\ \E i, j \in 1..Len(files_data) :
          /\ i < j
          /\ pd_fate[files_data[i]] \in {"metadata", "content", "storage"}
          /\ files_data[i] \in NamesOf(directory)
          /\ files_data[j] \in to_dir

\* C13 (as claimed): a file that stayed in the source directory because a step
\* failed for it is uploaded and moved by a later run in which the services
\* work.
C13_RetryMoves ==
    (pd_pc = "done" /\ pd_run > 1) => left_behind \subseteq to_dir

\* C22 (as claimed): between calls of upload_documents_to_sql a file has a row
\* in filemetadata exactly when it has its content row in largeobject.
C22_AtomicPerFile == filemetadata = largeobject

\* C23 (as claimed): when process_directory has returned, no file that is still
\* in the source directory has a filemetadata row created by that run.
C23_RecordsOnlyForMoved ==
    pd_pc = "done" =>
        \A name \in NamesOf(directory) :
            name \notin (filemetadata \ pd_before.filemetadata)

----------------------------------------------------------------------------
(* Claims about identify_doc_type and read_doc *)

\* the first n characters of a text
Prefix(d, n) == SubSeq(d, 1, IF Len(d) < n THEN Len(d) ELSE n)

\* a line that starts with a dash bullet, then a blank line, then a line that
\* starts with an uppercase letter
BulletLineFirst(d) ==
    LET ls == SplitLines(d) IN
    \E k \in 1..(Len(ls) - 2) :
        /\ StartsAt(ls[k], 1, <<"-", " ">>)
        /\ ls[k + 1] = <<>>
        /\ ls[k + 2] # <<>> /\ ls[k + 2][1] \in AsciiUpper

\* a line with a dash and a space somewhere in it, then a blank line, then a
\* line that starts with an uppercase letter
BulletLineAnywhere(d) ==
    LET ls == SplitLines(d) IN
    \E k \in 1..(Len(ls) - 2) :
        /\ FindFrom(ls[k], 1, <<"-", " ">>) # 0
        /\ ls[k + 1] = <<>>
        /\ ls[k + 2] # <<>> /\ ls[k + 2][1] \in AsciiUpper

BlankLines == { <<NL, NL>>, <<CR, NL, CR, NL>>, <<CR, NL, NL>>, <<NL, CR, NL>> }

\* the text splits into outline, one of the boundaries, and body, and no
\* boundary is inside the outline
SplitsAtFirst(boundaries) ==
    /\ \E b \in boundaries : rd_toc \o b \o rd_text = doc
    /\ \A b \in boundaries : FindFrom(rd_toc, 1, b) = 0

\* C15 (as claimed): a text classified as having an outline is split at its
\* first LF LF or CRLF CRLF: outline, boundary and body give the text back and
\* the outline holds no such boundary.
C15_SplitAtLfLfOrCrlfCrlf ==
    (rd_pc = "done" /\ doc_type = "TOC_WITHOUT_TITLE") =>
        SplitsAtFirst({ <<NL, NL>>, <<CR, NL, CR, NL>> })

\* C15 (amended): a text classified as having an outline is split at the first
\* place where two line ends follow each other, each of them LF or CRLF:
\* outline, boundary and body give the text back and the outline holds no such
\* boundary.
C15_SplitAtFirstBlankLine ==
    (rd_pc = "done" /\ doc_type = "TOC_WITHOUT_TITLE") => SplitsAtFirst(BlankLines)

\* C15 witness: a text with an outline was split and its body has a blank line
\* of its own.
C15_Witness ==
    /\ rd_pc = "done"
    /\ doc_type = "TOC_WITHOUT_TITLE"
    /\ rd_toc # <<>>
    /\ SplitPoint(rd_text) # 0

\* C28 (as claimed): for a text classified as having an outline, read_doc cuts
\* at the blank line of the classifier's pattern: the last line of the outline
\* has the dash bullet and the body starts with an uppercase letter.
C28_CutAtFingerprint ==
    (rd_pc = "done" /\ doc_type = "TOC_WITHOUT_TITLE") =>
        LET toc_lines == SplitLines(rd_toc) IN
        /\ toc_lines # <<>>
        /\ FindFrom(toc_lines[Len(toc_lines)], 1, <<"-", " ">>) # 0
        /\ rd_text # <<>>
        /\ rd_text[1] \in AsciiUpper

----------------------------------------------------------------------------
(* Claims about generate_abstract *)

\* the abstract is a prefix of the normalized text of at most max_length
\* characters
PrefixWithinLength ==
    /\ Len(abstract) <= max_length
    /\ abstract = Slice(NormalizeWhitespace(ab_text), Len(abstract))

\* the window has a period past its midpoint
PeriodPastMidpoint(window, n) == RFind(window, ".") > n \div 2

\* the window cut after its last period
CutAtLastPeriod(window) == Slice(window, RFind(window, ".") + 1)

\* C19 (as claimed): the abstract is the first max_length characters of the
\* normalized text, cut after the last period of that window whenever the
\* window has a period past its midpoint, and the whole window otherwise; it is
\* a prefix of the normalized text of at most max_length characters.
C19_TrimmedWheneverBoundary ==
    ab_pc = "done" =>
        LET window == Slice(NormalizeWhitespace(ab_text), max_length) IN
        /\ abstract = IF PeriodPastMidpoint(window, max_length)
                      THEN CutAtLastPeriod(window) ELSE window
        /\ PrefixWithinLength

\* C19 (amended): a normalized text of at most max_length characters is
\* returned whole; a longer one is cut to its first max_length characters, and
\* that window is cut after its last period when the period lies past the
\* midpoint of the window; the abstract is a prefix of the normalized text of
\* at most max_length characters.
C19_TrimmedOnlyWhenLonger ==
    ab_pc = "done" =>
        LET normalized == NormalizeWhitespace(ab_text)
            window == Slice(normalized, max_length)
        IN /\ Len(normalized) <= max_length => abstract = normalized
           /\ Len(normalized) > max_length =>
                 abstract = IF PeriodPastMidpoint(window, max_length)
                            THEN CutAtLastPeriod(window) ELSE window
           /\ PrefixWithinLength

\* C19 witness: a text that normalization changes and that is longer than
\* max_length after it, cut after a period inside the window.
C19_Witness ==
    /\ ab_pc = "done"
    /\ NormalizeWhitespace(ab_text) # ab_text
    /\ Len(NormalizeWhitespace(ab_text)) > max_length
    /\ Len(abstract) < max_length
    /\ abstract # <<>>
    /\ abstract[Len(abstract)] = "."

----------------------------------------------------------------------------
(* Claims about handle_upload *)

\* C29 (as claimed): a request whose document processing returns no content
\* ends with status 400 and the processing message as detail, and its file is
\* not in the new-user-uploads directory.
C29_NoContentGives400 ==
    (hu_pc = "done" /\ hu_request.available /\ hu_request.save = "ok"
        /\ hu_request.load = "none") =>
        /\ hu_status = 400
        /\ hu_detail = <<"message">>
        /\ hu_request.filename \notin new_uploads

====
